---- MODULE Spec2Model ----
(***************************************************************************)
(* Screencast Keys (src/src/screencastkeys/ops.py): the modal operator     *)
(* ScreencastKeysStatus, its class-level state and the host objects it     *)
(* reads (windows, areas, regions, timers, draw handlers, operators).      *)
(*                                                                         *)
(* Time is counted in units of TIMER_STEP (0.1 s).  A handler runs         *)
(* atomically at the time `now`; the host is single threaded.              *)
(* A Python exception leaving a handler is the value Raised; a modal       *)
(* handler that raises is ended by the host as if it had finished.         *)
(***************************************************************************)
EXTENDS Integers, Sequences, FiniteSets, TLC

(***************************************************************************)
(* Bounds of the model                                                     *)
(***************************************************************************)
MaxTime == 3            \* the clock runs from 1 to MaxTime
DisplayTime == 1        \* prefs.display_time, in units of TIMER_STEP
LineHeight == 2         \* blf.dimensions(font_id, string.printable)[1]
MaxModalHandlers == 2   \* modal handler instances installed at one time
MaxEntries == 3         \* entries of the event history
MaxRepeat == 3          \* presses merged into one entry
MaxHistory == 3         \* entries of the histories removed_old_event_history is given
MaxCommands == 41       \* operators the host executes in SpecCommands
Burst == 40             \* operators the host executes between two ticks
MaxHandles == 2         \* handles of operators, and operators in the host's list
MaxScanned == 3         \* entries of the command history in SpecScan
MaxWindowTime == 2      \* the clock runs from 1 to MaxWindowTime where windows or operators vary
MaxModifiers == 3       \* length of the lists handed to sorted_modifier_keys

(***************************************************************************)
(* Program constants                                                       *)
(***************************************************************************)
TIMER_STEP == 1         \* ops.py:247, the unit of time
OperatorHistoryLimit == 32   \* ops.py:328

None == "None"
Raised == "Raised"

(***************************************************************************)
(* The host's event catalog (bpy.types.Event 'type' enum), as far as the   *)
(* operator distinguishes its members.  A name is a sequence of words.     *)
(***************************************************************************)
MODIFIER_EVENT_TYPES ==
    <<"LEFT_SHIFT", "RIGHT_SHIFT", "LEFT_CTRL", "RIGHT_CTRL",
      "LEFT_ALT", "RIGHT_ALT", "OSKEY">>

MOUSE_EVENT_TYPES ==
    {"LEFTMOUSE", "MIDDLEMOUSE", "RIGHTMOUSE", "WHEELUPMOUSE"}

EventTypeCatalog ==
    {"NONE", "MOUSEMOVE", "INBETWEEN_MOUSEMOVE", "WINDOW_DEACTIVATE",
     "TEXTINPUT", "TIMER", "TIMER_REPORT", "EVT_TWEAK_L", "A", "B", "SPACE"}
    \cup MOUSE_EVENT_TYPES
    \cup {MODIFIER_EVENT_TYPES[i] : i \in 1..Len(MODIFIER_EVENT_TYPES)}

EventTypeName(t) ==
    CASE t = "LEFT_SHIFT"  -> <<"Left", "Shift">>
      [] t = "RIGHT_SHIFT" -> <<"Right", "Shift">>
      [] t = "LEFT_CTRL"   -> <<"Left", "Ctrl">>
      [] t = "RIGHT_CTRL"  -> <<"Right", "Ctrl">>
      [] t = "LEFT_ALT"    -> <<"Left", "Alt">>
      [] t = "RIGHT_ALT"   -> <<"Right", "Alt">>
      [] t = "OSKEY"       -> <<"OS", "Key">>
      [] t = "LEFTMOUSE"   -> <<"Left", "Mouse">>
      [] t = "MIDDLEMOUSE" -> <<"Middle", "Mouse">>
      [] t = "RIGHTMOUSE"  -> <<"Right", "Mouse">>
      [] OTHER             -> <<t>>

(***************************************************************************)
(* The host's window tree.  W1 is the main window, with one area; W2 can   *)
(* be opened and closed and has two areas.  R2 is a region the host can    *)
(* take off the screen and put back; R6 is a region with no type.          *)
(***************************************************************************)
Windows == {"W1", "W2"}

Areas == {"A1", "A2", "A3"}

Regions == {"R1", "R2", "R3", "R4", "R5", "R6"}

WindowAreas(w) == IF w = "W1" THEN <<"A1">> ELSE <<"A2", "A3">>

AreaInfo(a) ==
    CASE a = "A1" -> [type |-> "VIEW_3D",  x |-> 0, y |-> 0, width |-> 6, height |-> 6,
                      regions |-> <<"R1", "R2">>, space |-> "S1"]
      [] a = "A2" -> [type |-> "OUTLINER", x |-> 0, y |-> 0, width |-> 4, height |-> 6,
                      regions |-> <<"R3", "R6">>, space |-> "S2"]
      [] a = "A3" -> [type |-> "VIEW_3D",  x |-> 4, y |-> 0, width |-> 6, height |-> 6,
                      regions |-> <<"R4", "R5">>, space |-> "S3"]

RegionInfo(r) ==
    CASE r = "R1" -> [type |-> "WINDOW", x |-> 0, y |-> 0, width |-> 4, height |-> 6]
      [] r = "R2" -> [type |-> "UI",     x |-> 4, y |-> 0, width |-> 2, height |-> 6]
      [] r = "R3" -> [type |-> "WINDOW", x |-> 0, y |-> 0, width |-> 4, height |-> 6]
      [] r = "R4" -> [type |-> "WINDOW", x |-> 4, y |-> 0, width |-> 4, height |-> 6]
      [] r = "R5" -> [type |-> "UI",     x |-> 8, y |-> 0, width |-> 2, height |-> 6]
      [] r = "R6" -> [type |-> "",       x |-> 0, y |-> 0, width |-> 4, height |-> 6]

Panels == {"R2"}

VARIABLES
    \* class-level state of ScreencastKeysStatus
    hold_modifier_keys, event_history, operator_history, prev_time,
    timers, handlers, draw_regions_prev, origin, area_spaces, running,
    \* the host
    now, wm_windows, closed_windows, removed_regions, wm_operators, host_timers,
    host_draw_handlers, modal_handlers, pending, tagged, prefs,
    \* the outcome of the last handler call, and of the last calls under test
    ret, given_modifiers, given_event, names, kept, rect, regions,
    \* the presses the running loop has processed in a row
    streak,
    \* ScreencastKeysStatusSetOrigin: its handles, the host's draw handlers of it, the
    \* window of its modal handler, and self.region and self.area_prev
    set_origin

vars == <<hold_modifier_keys, event_history, operator_history, prev_time,
          timers, handlers, draw_regions_prev, origin, area_spaces, running,
          now, wm_windows, closed_windows, removed_regions, wm_operators, host_timers,
          host_draw_handlers, modal_handlers, pending, tagged, prefs,
          ret, given_modifiers, given_event, names, kept, rect, regions, streak,
          set_origin>>

(***************************************************************************)
(* Helpers on sequences                                                    *)
(***************************************************************************)
Range(s) == {s[i] : i \in 1..Len(s)}

Max2(a, b) == IF a >= b THEN a ELSE b

Min2(a, b) == IF a <= b THEN a ELSE b

IndexOf(s, e) == CHOOSE i \in 1..Len(s) : s[i] = e /\ \A j \in 1..(i - 1) : s[j] # e

(***************************************************************************)
(* intersect_aabb (ops.py:97-104): points are sequences of coordinates.    *)
(***************************************************************************)
intersect_aabb(min1, max1, min2, max2) ==
    \A i \in 1..Len(min1) : ~((max1[i] < min2[i]) \/ (max2[i] < min1[i]))

(***************************************************************************)
(* sorted_modifier_keys (ops.py:281-305)                                   *)
(***************************************************************************)
key_fn(event_type) ==
    IF event_type \in Range(MODIFIER_EVENT_TYPES)
    THEN IndexOf(MODIFIER_EVENT_TYPES, event_type) - 1
    ELSE 100

\* sorted(modifiers, key=key_fn): a stable insertion of each element in turn.
RECURSIVE InsertByKey(_, _)
InsertByKey(sorted, e) ==
    IF sorted = <<>> THEN <<e>>
    ELSE IF key_fn(sorted[Len(sorted)]) <= key_fn(e) THEN Append(sorted, e)
    ELSE Append(InsertByKey(SubSeq(sorted, 1, Len(sorted) - 1), e), sorted[Len(sorted)])

RECURSIVE SortedByKey(_)
SortedByKey(modifiers) ==
    IF modifiers = <<>> THEN <<>>
    ELSE InsertByKey(SortedByKey(SubSeq(modifiers, 1, Len(modifiers) - 1)),
                     modifiers[Len(modifiers)])

\* re.sub('(Left )', '', name)
StripLeftOnly(name) ==
    IF Len(name) > 1 /\ name[1] = "Left" THEN Tail(name) ELSE name

\* re.sub('(Left |Right )', '', name): a word Left or Right that another word follows.
StripLeftRight(name) ==
    LET keep == {i \in 1..Len(name) : ~(name[i] \in {"Left", "Right"} /\ i < Len(name))}
        F[i \in 0..Len(name)] ==
            IF i = 0 THEN <<>>
            ELSE IF i \in keep THEN Append(F[i - 1], name[i]) ELSE F[i - 1]
    IN F[Len(name)]

RECURSIVE UniqueNames(_, _)
UniqueNames(mods, acc) ==
    IF mods = <<>> THEN acc
    ELSE LET name == StripLeftRight(EventTypeName(mods[1]))
         IN UniqueNames(Tail(mods),
                        IF name \in Range(acc) THEN acc ELSE Append(acc, name))

\* The value of a call the assert of line 295 ends: a list that is no list of names.
AssertionError == <<<<Raised>>>>

sorted_modifier_keys(modifiers) ==
    IF \E i \in 1..Len(modifiers) : modifiers[i] \notin Range(MODIFIER_EVENT_TYPES)
    THEN AssertionError
    ELSE UniqueNames(SortedByKey(modifiers), <<>>)

(***************************************************************************)
(* removed_old_event_history (ops.py:307-321), at time current_time.       *)
(* An entry is [time, type, modifier, repeat].                             *)
(***************************************************************************)
\* lines 307-321 without the loop of lines 315-319: the history as it is
removed_old_event_history_all(history, current_time, display_time) == history

\* The loop of lines 315-319 with the test t < prefs.display_time
removed_old_event_history_strict(history, current_time, display_time) ==
    SelectSeq(history, LAMBDA item : current_time - item.time < display_time)

RECURSIVE removed_old_event_history(_, _, _)
removed_old_event_history(history, current_time, display_time) ==
    IF history = <<>> THEN <<>>
    ELSE LET item == history[1]
             t == current_time - item.time
             rest == removed_old_event_history(Tail(history), current_time, display_time)
         IN IF t <= display_time THEN <<item>> \o rest ELSE rest

(***************************************************************************)
(* removed_old_operator_history (ops.py:323-328): operator_history[-32:]   *)
(***************************************************************************)
removed_old_operator_history_head(history) ==      \* operator_history[:32]
    SubSeq(history, 1, Min2(Len(history), OperatorHistoryLimit))

removed_old_operator_history(history) ==
    IF Len(history) <= OperatorHistoryLimit THEN history
    ELSE SubSeq(history, Len(history) - OperatorHistoryLimit + 1, Len(history))


(***************************************************************************)
(* The host objects a context gives access to                              *)
(***************************************************************************)
\* area.regions: the regions of an area that are open, in the host's order.
AreaRegions(a) == SelectSeq(AreaInfo(a).regions, LAMBDA r : r \notin removed_regions)

\* context.screen.areas for a context whose window is w.
ScreenAreas(w) == WindowAreas(w)

AreaOf(r) == CHOOSE a \in Areas : r \in Range(AreaInfo(a).regions)

WindowOf(a) == CHOOSE w \in Windows : a \in Range(WindowAreas(w))

\* Every (area, region) pair of a screen, areas first, as the nested loops visit them.
RECURSIVE PairsOf(_, _)
PairsOf(a, rs) == IF rs = <<>> THEN <<>> ELSE <<<<a, rs[1]>>>> \o PairsOf(a, Tail(rs))

RECURSIVE ScreenRegions(_)
ScreenRegions(areas) ==
    IF areas = <<>> THEN <<>>
    ELSE PairsOf(areas[1], AreaRegions(areas[1])) \o ScreenRegions(Tail(areas))

\* compat.get_user_preferences(context).system.use_region_overlap: the layout above
\* is one of a host that does not overlap its regions.
use_region_overlap == FALSE

(***************************************************************************)
(* get_window_region_rect (ops.py:107-118)                                 *)
(***************************************************************************)
RECURSIVE WindowRegionRect(_, _)
WindowRegionRect(rs, acc) ==
    IF rs = <<>> THEN acc
    ELSE LET region == RegionInfo(rs[1])
         IN WindowRegionRect(Tail(rs),
              IF region.type = "WINDOW"
              THEN <<Min2(acc[1], region.x), Min2(acc[2], region.y),
                     Max2(region.x + region.width - 1, acc[3]),
                     Max2(region.y + region.height - 1, acc[4])>>
              ELSE acc)

get_window_region_rect(area) == WindowRegionRect(AreaRegions(area), <<99999, 99999, 0, 0>>)

(***************************************************************************)
(* get_region_rect_on_v3d (ops.py:121-194)                                 *)
(***************************************************************************)
\* lines 132-139: the last region of the area that is wider than 1 and of type t
NoRegion == [type |-> None, x |-> 0, y |-> 0, width |-> 0, height |-> 0]

LastOf(found) == IF found = <<>> THEN NoRegion ELSE RegionInfo(found[Len(found)])

WideRegion(area, t) ==
    LastOf(SelectSeq(AreaRegions(area),
                     LAMBDA q : RegionInfo(q).width > 1 /\ RegionInfo(q).type = t))

\* lines 169-178, for the left one r1 and the right one r2 of the two side regions
BothSides(a, r1, r2) ==
    IF r1.x = a.x
    THEN IF r2.x = r1.x + r1.width
         THEN <<r1.width + r2.width, 0>>
         ELSE <<r1.width, r2.width>>
    ELSE <<0, r1.width + r2.width>>

\* lines 180-184, 186-190: one side region
OneSide(a, t) == IF t.x = a.x THEN <<t.width, 0>> ELSE <<0, t.width>>

\* lines 141-190: the widths the side regions take on the left and on the right
SideWidths(a, tools, ui) ==
    IF tools.type # None /\ ui.type # None
    THEN IF tools.x <= ui.x THEN BothSides(a, tools, ui) ELSE BothSides(a, ui, tools)
    ELSE IF tools.type # None THEN OneSide(a, tools)
    ELSE IF ui.type # None THEN OneSide(a, ui)
    ELSE <<0, 0>>

RegionRectOnV3d(region, a, wr, sides) ==
    IF region.type # "WINDOW"
    THEN <<region.x, region.y, region.x + region.width, region.y + region.height>>
    ELSE <<IF use_region_overlap THEN Max2(wr[1], a.x + sides[1]) ELSE wr[1],
           region.y,
           IF use_region_overlap THEN Min2(wr[3], a.x + a.width - sides[2] - 1) ELSE wr[3],
           region.y + region.height - 1>>

get_region_rect_on_v3d(area, r) ==
    RegionRectOnV3d(RegionInfo(r), AreaInfo(area), get_window_region_rect(area),
                    SideWidths(AreaInfo(area), WideRegion(area, "TOOLS"),
                               WideRegion(area, "UI")))

(***************************************************************************)
(* get_origin (ops.py:330-386).  The result is (window, area, region, x,   *)
(* y), or an exception; (None, None, None, 0, 0) is "no target".           *)
(***************************************************************************)
NoTarget == [exc |-> FALSE, window |-> None, area |-> None, region |-> None,
             x |-> 0, y |-> 0]

RaisedTarget == [exc |-> TRUE, window |-> None, area |-> None, region |-> None,
                 x |-> 0, y |-> 0]

Target(w, a, r, x, y) == [exc |-> FALSE, window |-> w, area |-> a, region |-> r,
                          x |-> x, y |-> y]

\* "True", "False", or Raised: area_p is an integer, and area_p.spaces raises
\* AttributeError (line 349) as soon as the area is a key of area_spaces.
is_area_match(area) ==
    IF area = origin.area THEN "True"
    ELSE IF AreaInfo(area).space = origin.space THEN "True"
    ELSE IF \E p \in area_spaces : p[1] = area THEN Raised
    ELSE "False"

is_region_match(r) == RegionInfo(r).type = origin.region_type

AreaTarget(window, area, a) ==
    Target(window, area, None, prefs.offset[1] + a.x, prefs.offset[2] + a.y)

RegionTarget(window, area, r, xy) ==
    Target(window, area, r, prefs.offset[1] + xy[1], prefs.offset[2] + xy[2])

\* lines 368-372: the origin of region r of the area
RegionXY(area, r) ==
    IF AreaInfo(area).type = "VIEW_3D"
    THEN get_region_rect_on_v3d(area, r)
    ELSE <<RegionInfo(r).x, RegionInfo(r).y>>

\* lines 356-361, prefs.origin == 'AREA'
RECURSIVE OriginInAreas(_, _)
OriginInAreas(window, areas) ==
    IF areas = <<>> THEN NoTarget
    ELSE CASE is_area_match(areas[1]) = Raised -> RaisedTarget
           [] is_area_match(areas[1]) = "True" ->
                  AreaTarget(window, areas[1], AreaInfo(areas[1]))
           [] OTHER -> OriginInAreas(window, Tail(areas))

FirstMatch(window, area, found, rest) ==
    IF found = <<>> THEN rest
    ELSE RegionTarget(window, area, found[1], RegionXY(area, found[1]))

\* lines 362-384, prefs.origin == 'REGION'
RECURSIVE OriginInRegions(_, _)
OriginInRegions(window, areas) ==
    IF areas = <<>> THEN NoTarget
    ELSE CASE is_area_match(areas[1]) = Raised -> RaisedTarget
           [] is_area_match(areas[1]) = "False" -> OriginInRegions(window, Tail(areas))
           [] OTHER ->
                  FirstMatch(window, areas[1],
                             SelectSeq(AreaRegions(areas[1]), is_region_match),
                             OriginInRegions(window, Tail(areas)))

get_origin ==
    IF origin.window \notin wm_windows THEN NoTarget
    ELSE IF prefs.origin = "WINDOW"
    THEN Target(origin.window, None, None, prefs.offset[1], prefs.offset[2])
    ELSE IF prefs.origin = "AREA" THEN OriginInAreas(origin.window, WindowAreas(origin.window))
    ELSE IF prefs.origin = "REGION"
    THEN OriginInRegions(origin.window, WindowAreas(origin.window))
    ELSE NoTarget

(***************************************************************************)
(* calc_draw_area_rect (ops.py:388-495).  cls.SEPARATOR_HEIGHT is not an   *)
(* attribute of the class (it defines HEIGHT_RATIO_FOR_SEPARATOR), so the  *)
(* lines 443 and 458 raise AttributeError when they are reached.           *)
(***************************************************************************)
NoRect == [kind |-> None, min_x |-> 0, min_y |-> 0, max_x |-> 0, max_y |-> 0]

RaisedRect == [kind |-> Raised, min_x |-> 0, min_y |-> 0, max_x |-> 0, max_y |-> 0]

Rect(x0, y0, x1, y1) == [kind |-> "Rect", min_x |-> x0, min_y |-> y0,
                         max_x |-> x1, max_y |-> y1]

\* lines 466-493: the rectangle of a text draw_area_width wide and
\* draw_area_height high at the origin o, cut to the origin's area or region
ClippedRect(o, draw_area_width, draw_area_height, within) ==
    IF prefs.origin = "WINDOW"
    THEN Rect(o.x, o.y, o.x + draw_area_width, o.y + draw_area_height)
    ELSE Rect(Max2(o.x, within.x), Max2(o.y, within.y),
              Min2(o.x + draw_area_width, within.x + within.width - 1),
              Min2(o.y + draw_area_height, within.y + within.height - 1))

\* What is left of the accumulation of lines 420-464 when no line raised is a
\* width of 0 and a height of sh.
DrawAreaRect(o, pruned, sh) ==
    IF o.exc THEN RaisedRect
    ELSE IF o.window = None THEN NoRect                                \* lines 401-402
    ELSE IF prefs.show_last_operator THEN RaisedRect                   \* line 443
    ELSE IF hold_modifier_keys # <<>>
            /\ sorted_modifier_keys(hold_modifier_keys) = AssertionError THEN RaisedRect
    ELSE IF hold_modifier_keys # <<>> \/ pruned # <<>> THEN RaisedRect \* line 458
    ELSE ClippedRect(o, 0, sh,
                     IF prefs.origin = "AREA" THEN AreaInfo(o.area)
                     ELSE IF prefs.origin = "REGION" THEN RegionInfo(o.region)
                     ELSE NoRegion)

calc_draw_area_rect ==
    DrawAreaRect(get_origin,
                 removed_old_event_history(event_history, now, prefs.display_time),
                 LineHeight)

(***************************************************************************)
(* find_redraw_regions (ops.py:498-528), for the draw rectangle r and the  *)
(* screen of window w: a sequence of (area, region) pairs.                 *)
(***************************************************************************)
RegionOverlaps(r, pair) ==
    LET region == RegionInfo(pair[2])
    IN /\ region.type # ""
       /\ intersect_aabb(<<region.x, region.y>>,
                         <<region.x + region.width - 1, region.y + region.height - 1>>,
                         <<r.min_x, r.min_y>>, <<r.max_x - 1, r.max_y - 1>>)

\* width == 0 or height == 0
ZeroSizeEither(r) == (r.max_x - r.min_x = 0) \/ (r.max_y - r.min_y = 0)

\* line 508: width == height == 0
ZeroSize(r) == (r.max_x - r.min_x = r.max_y - r.min_y) /\ (r.max_y - r.min_y = 0)

\* The value of a call that calc_draw_area_rect's exception ends.
RaisedRegions == <<<<Raised, Raised>>>>

find_redraw_regions(r, w) ==
    IF r.kind = Raised THEN RaisedRegions
    ELSE IF r.kind = None THEN <<>>
    ELSE IF ZeroSize(r) THEN <<>>
    ELSE SelectSeq(ScreenRegions(ScreenAreas(w)), LAMBDA pair : RegionOverlaps(r, pair))

(***************************************************************************)
(* Events: type, value and the four modifier flags.                        *)
(***************************************************************************)
Ev(t, v, sh, ct, al, os) ==
    [type |-> t, value |-> v, shift |-> sh, ctrl |-> ct, alt |-> al, oskey |-> os]

Key(t, v) == Ev(t, v, FALSE, FALSE, FALSE, FALSE)

\* No event is given: no method is called on its own.
NoEvent == Key(None, None)

TweakTypes == {t \in EventTypeCatalog : t \in {"EVT_TWEAK_L"}}     \* name.startswith('EVT_TWEAK')

TimerTypes == {t \in EventTypeCatalog : t \in {"TIMER", "TIMER_REPORT"}}  \* name.startswith('TIMER')

(***************************************************************************)
(* update_hold_modifier_keys (ops.py:696-713), for an event whose type the *)
(* catalog knows: the new content of hold_modifier_keys.                   *)
(***************************************************************************)
\* lines 696-713 without the clear() of line 698
update_hold_modifier_keys_kept(event) ==
    LET mod_keys == (IF event.shift THEN <<"LEFT_SHIFT">> ELSE <<>>)
                    \o (IF event.oskey THEN <<"OSKEY">> ELSE <<>>)
                    \o (IF event.alt THEN <<"LEFT_ALT">> ELSE <<>>)
                    \o (IF event.ctrl THEN <<"LEFT_CTRL">> ELSE <<>>)
    IN hold_modifier_keys
       \o (IF event.type = "WINDOW_DEACTIVATE" THEN <<>> ELSE mod_keys)

update_hold_modifier_keys(event) ==
    LET mod_keys == (IF event.shift THEN <<"LEFT_SHIFT">> ELSE <<>>)
                    \o (IF event.oskey THEN <<"OSKEY">> ELSE <<>>)
                    \o (IF event.alt THEN <<"LEFT_ALT">> ELSE <<>>)
                    \o (IF event.ctrl THEN <<"LEFT_CTRL">> ELSE <<>>)
    IN IF event.type = "WINDOW_DEACTIVATE" THEN <<>> ELSE mod_keys

(***************************************************************************)
(* is_ignore_event (ops.py:715-728), is_modifier_event (ops.py:730-732)    *)
(***************************************************************************)
is_ignore_event(event, p) ==
    \/ event.type \in {"NONE", "MOUSEMOVE", "INBETWEEN_MOUSEMOVE",
                       "WINDOW_DEACTIVATE", "TEXTINPUT"}
    \/ (~p.show_mouse_events /\ event.type \in MOUSE_EVENT_TYPES)
    \/ event.type \in TweakTypes
    \/ event.type \in TimerTypes

is_modifier_event(event) == event.type \in Range(MODIFIER_EVENT_TYPES)

(***************************************************************************)
(* The steps of modal (ops.py:734-821)                                     *)
(***************************************************************************)
\* lines 755-757: current_mod.remove(event_type) takes the first occurrence out
RemoveFirst(seq, e) ==
    IF e \notin Range(seq) THEN seq
    ELSE LET k == IndexOf(seq, e)
         IN SubSeq(seq, 1, k - 1) \o SubSeq(seq, k + 1, Len(seq))

\* lines 760-761 without the test event.value == 'PRESS'
IsRecordedAnyValue(event, p) ==
    ~is_ignore_event(event, p) /\ ~is_modifier_event(event)

\* lines 760-761 without the test of is_modifier_event
IsRecordedModifierKeys(event, p) ==
    ~is_ignore_event(event, p) /\ event.value = "PRESS"

\* lines 760-761
IsRecorded(event, p) ==
    ~is_ignore_event(event, p) /\ ~is_modifier_event(event) /\ event.value = "PRESS"

\* lines 764-765 with the test current_time - last[0] <= prefs.display_time
MergesInclusive(history, event_type, current_mod, current_time, p) ==
    /\ history # <<>>
    /\ history[Len(history)].type = event_type
    /\ history[Len(history)].modifier = current_mod
    /\ current_time - history[Len(history)].time <= p.display_time

\* lines 764-765: the press repeats the last entry
Merges(history, event_type, current_mod, current_time, p) ==
    /\ history # <<>>
    /\ history[Len(history)].type = event_type
    /\ history[Len(history)].modifier = current_mod
    /\ current_time - history[Len(history)].time < p.display_time

\* lines 762-769 with a merge that leaves the timestamp of the entry as it was
RecordEventKeepsTime(history, event_type, current_mod, current_time, p) ==
    IF Merges(history, event_type, current_mod, current_time, p)
    THEN [history EXCEPT ![Len(history)] = [@ EXCEPT !.repeat = @ + 1]]
    ELSE Append(history, [time |-> current_time, type |-> event_type,
                          modifier |-> current_mod, repeat |-> 1])

\* lines 762-769
RecordEvent(history, event_type, current_mod, current_time, p) ==
    IF Merges(history, event_type, current_mod, current_time, p)
    THEN [history EXCEPT ![Len(history)] =
             [@ EXCEPT !.time = current_time, !.repeat = @ + 1]]
    ELSE Append(history, [time |-> current_time, type |-> event_type,
                          modifier |-> current_mod, repeat |-> 1])

\* lines 776-784: the index after which the host's operators are new
ScanStart(history, operators) ==
    LET addr == IF history # <<>> THEN history[Len(history)].addr ELSE 0   \* None
        hits == {i \in 1..Len(operators) : operators[i] = addr}
    IN IF hits = {} THEN 0 ELSE CHOOSE i \in hits : \A k \in hits : k <= i

\* lines 773-790 with the slice operators[j - 1:], which takes in the operator found
RecordOperatorsFromFound(history, operators, current_time) ==
    LET j == ScanStart(history, operators)
        fresh == SubSeq(operators, Max2(j, 1), Len(operators))
    IN history \o [i \in 1..Len(fresh) |-> [time |-> current_time, addr |-> fresh[i]]]

\* lines 773-790
RecordOperators(history, operators, current_time) ==
    LET j == ScanStart(history, operators)
        fresh == SubSeq(operators, j + 1, Len(operators))
    IN history \o [i \in 1..Len(fresh) |-> [time |-> current_time, addr |-> fresh[i]]]

\* lines 795-796
NeedsRedraw(event, p, current_time) ==
    \/ ~is_ignore_event(event, p)
    \/ (prev_time # 0 /\ current_time - prev_time >= TIMER_STEP)

HandlerKey(pair) == <<AreaInfo(pair[1]).type, RegionInfo(pair[2]).type>>

OnScreen(w) == {pair[2] : pair \in Range(ScreenRegions(ScreenAreas(w)))}

NoRet == [op |-> "none", window |-> None, value |-> None, redraw |-> FALSE]

Ret(op, w, value, redraw) ==
    [op |-> op, window |-> w, value |-> value, redraw |-> redraw]

EndHandler(w) == modal_handlers' = [modal_handlers EXCEPT ![w] = @ - 1]

\* The run of presses that repeat one another, as the loop processes them: n counts
\* those less than display_time after the one before, the first of them at the time
\* start, m those at most display_time after the one before.
NoStreak == [type |-> None, modifier |-> <<>>, start |-> 0, time |-> 0, n |-> 0, m |-> 0]

NextStreak(event, current_mod, p) ==
    IF ~IsRecorded(event, p) THEN streak
    ELSE LET same == streak.n > 0 /\ streak.type = event.type
                     /\ streak.modifier = current_mod
         IN [type |-> event.type, modifier |-> current_mod, time |-> now,
             start |-> IF same /\ now - streak.time < p.display_time
                       THEN streak.start ELSE now,
             n |-> IF same /\ now - streak.time < p.display_time
                   THEN streak.n + 1 ELSE 1,
             m |-> IF same /\ now - streak.time <= p.display_time
                   THEN streak.m + 1 ELSE 1]

HostUnchanged ==
    UNCHANGED <<now, wm_windows, closed_windows, removed_regions, wm_operators, prefs>>

\* The locals of a redraw pass are gone when another call starts.
NoPass ==
    /\ rect' = NoRect
    /\ regions' = <<>>
    /\ tagged' = {}
    /\ given_modifiers' = <<>>
    /\ given_event' = NoEvent
    /\ names' = <<>>
    /\ kept' = <<>>

\* modal on the handler instance of window w, for the event e
Modal(w, e) ==
    /\ HostUnchanged
    /\ UNCHANGED <<timers, host_timers, origin, set_origin>>
    /\ IF ~running THEN                                   \* lines 737-738
          /\ EndHandler(w)
          /\ ret' = Ret("modal", w, "FINISHED", FALSE)
          /\ NoPass
          /\ UNCHANGED <<hold_modifier_keys, event_history, operator_history, prev_time,
                         handlers, host_draw_handlers, draw_regions_prev, area_spaces,
                         running, streak>>
       ELSE IF e.type = "" THEN                           \* lines 740-744
          /\ ret' = Ret("modal", w, "PASS_THROUGH", FALSE)
          /\ NoPass
          /\ UNCHANGED <<hold_modifier_keys, event_history, operator_history, prev_time,
                         handlers, host_draw_handlers, draw_regions_prev, area_spaces,
                         running, modal_handlers, streak>>
       ELSE IF e.type \notin EventTypeCatalog THEN        \* line 745: KeyError
          /\ EndHandler(w)
          /\ ret' = Ret("modal", w, Raised, FALSE)
          /\ NoPass
          /\ UNCHANGED <<hold_modifier_keys, event_history, operator_history, prev_time,
                         handlers, host_draw_handlers, draw_regions_prev, area_spaces,
                         running, streak>>
       ELSE
          LET current_mod == RemoveFirst(update_hold_modifier_keys(e), e.type)
              recorded == IF IsRecorded(e, prefs)
                          THEN RecordEvent(event_history, e.type, current_mod, now, prefs)
                          ELSE event_history
          IN
          /\ UNCHANGED running
          /\ area_spaces' = area_spaces \cup                       \* lines 749-751
                 {<<a, AreaInfo(a).space>> : a \in Range(ScreenAreas(w))}
          /\ hold_modifier_keys' = update_hold_modifier_keys(e)     \* line 754
          /\ event_history' =                                       \* lines 760-770
                 removed_old_event_history(recorded, now, prefs.display_time)
          /\ operator_history' =                                    \* lines 773-791
                 removed_old_operator_history(
                     IF wm_operators # <<>>
                     THEN RecordOperators(operator_history, wm_operators, now)
                     ELSE operator_history)
          /\ streak' = NextStreak(e, current_mod, prefs)
          /\ IF ~NeedsRedraw(e, prefs, now) THEN
                /\ ret' = Ret("modal", w, "PASS_THROUGH", FALSE)
                /\ NoPass
                /\ UNCHANGED <<prev_time, handlers, host_draw_handlers, draw_regions_prev,
                               modal_handlers>>
             ELSE
                /\ given_modifiers' = <<>> /\ names' = <<>> /\ kept' = <<>>
                /\ given_event' = NoEvent
                /\ rect' = calc_draw_area_rect'                     \* line 502
                /\ regions' = find_redraw_regions(rect', w)         \* line 797
                /\ IF regions' = RaisedRegions THEN
                      /\ EndHandler(w)
                      /\ ret' = Ret("modal", w, Raised, FALSE)
                      /\ tagged' = {}
                      /\ UNCHANGED <<prev_time, handlers, host_draw_handlers,
                                     draw_regions_prev>>
                   ELSE
                      LET found == {pair[2] : pair \in Range(regions')}
                          keys == {HandlerKey(pair) : pair \in Range(regions')}
                          stale == draw_regions_prev \cap OnScreen(w)   \* lines 800-805
                      IN
                      /\ handlers' = handlers \cup keys                 \* lines 809-815
                      /\ host_draw_handlers' = host_draw_handlers \cup (keys \ handlers)
                      /\ draw_regions_prev' = (draw_regions_prev \ stale) \cup found
                      /\ tagged' = stale \cup found                     \* lines 804, 816
                      /\ prev_time' = now                               \* line 819
                      /\ ret' = Ret("modal", w, "PASS_THROUGH", TRUE)
                      /\ UNCHANGED modal_handlers

\* The host hands an event of window w to the window's modal handlers, the first of
\* them here; a handler that passes the event through leaves it to the next one.
Pending(w, e) ==
    IF ret'.value = "PASS_THROUGH" /\ modal_handlers[w] > 1
    THEN <<[window |-> w, event |-> e, left |-> modal_handlers[w] - 1]>>
    ELSE <<>>

\* The presses the host delivers stay within the bounds of the model.
WithinBounds(e) ==
    (running /\ e.type \in EventTypeCatalog /\ IsRecorded(e, prefs)) =>
        /\ Len(event_history) < MaxEntries
        /\ event_history # <<>> => event_history[Len(event_history)].repeat < MaxRepeat

Dispatch(w, e) ==
    /\ pending = <<>>
    /\ w \in wm_windows
    /\ modal_handlers[w] > 0
    /\ e.type \in TimerTypes => w \in host_timers
    /\ WithinBounds(e)
    /\ Modal(w, e)
    /\ pending' = Pending(w, e)

DispatchNext ==
    /\ pending # <<>>
    /\ Modal(pending[1].window, pending[1].event)
    /\ pending' = IF ret'.value = "PASS_THROUGH" /\ pending[1].left > 1
                  THEN <<[pending[1] EXCEPT !.left = @ - 1]>>
                  ELSE <<>>

(***************************************************************************)
(* draw_callback (ops.py:532-694), the host painting region r of area a in *)
(* window w.  The name x of line 621 is bound nowhere: the callback raises *)
(* NameError once it is past the checks of lines 536-569 (a call of line   *)
(* 617 that raises does so before).                                        *)
(***************************************************************************)
\* lines 546-569 and 621, for the origin o, the draw rectangle d and the
\* rectangle rr of the region that is painted
PaintRegion(o, d, rr) ==
    IF d.kind = Raised THEN Raised                                 \* line 539
    ELSE IF d.kind = None THEN None                                \* lines 540-541
    ELSE IF (d.max_x - o.x = d.max_y - o.y) /\ (d.max_y - o.y = 0) THEN None
    ELSE IF ~intersect_aabb(<<rr[1], rr[2]>>, <<rr[3], rr[4]>>,
                            <<d.min_x + 1, d.min_y + 1>>,
                            <<d.max_x - 1, d.max_x - 1>>) THEN None   \* line 567
    ELSE Raised                                              \* lines 617, 621

RegionRect(a, region) ==
    IF region.type = "WINDOW" THEN get_window_region_rect(a)
    ELSE <<region.x, region.y,
           region.x + region.width - 1, region.y + region.height - 1>>

\* lines 532-694 without the test of the window, lines 536-537
draw_callback_any_window(w, a, r) ==
    PaintRegion(get_origin, calc_draw_area_rect, RegionRect(a, RegionInfo(r)))

draw_callback(w, a, r) ==
    IF w # origin.window THEN None                                 \* lines 536-537
    ELSE PaintRegion(get_origin, calc_draw_area_rect, RegionRect(a, RegionInfo(r)))

DrawCallback(w, a, r) ==
    /\ pending = <<>>
    /\ w \in wm_windows
    /\ a \in Range(WindowAreas(w))
    /\ r \in Range(AreaRegions(a))
    /\ <<AreaInfo(a).type, RegionInfo(r).type>> \in host_draw_handlers
    /\ ret' = Ret("draw_callback", w, draw_callback(w, a, r), FALSE)
    \* line 694 is behind line 621: no call reaches it
    /\ UNCHANGED <<hold_modifier_keys, event_history, operator_history, prev_time,
                   timers, handlers, draw_regions_prev, origin, area_spaces, running,
                   host_timers, host_draw_handlers, modal_handlers, pending, streak,
                   set_origin>>
    /\ HostUnchanged
    /\ NoPass

(***************************************************************************)
(* invoke (ops.py:846-868) in the context (w, a, r), with                  *)
(* event_timer_add/remove (829-844) and draw_handler_remove (823-827).     *)
(***************************************************************************)
\* lines 838-844: the host's timers that are left when the timers of the open
\* windows have been removed
event_timer_remove == host_timers \ (wm_windows \cap timers)

\* lines 830-835: the keys of cls.timers when every open window has a timer
event_timer_add == timers \cup wm_windows

\* lines 823-827: the host's draw handlers that are left
draw_handler_remove == host_draw_handlers \ handlers

\* lines 848-856: the loop is running
StopLoopKeepsRegions(w) ==
    /\ host_timers' = event_timer_remove
    /\ timers' = {}
    /\ host_draw_handlers' = draw_handler_remove
    /\ handlers' = {}
    /\ hold_modifier_keys' = <<>>
    /\ event_history' = <<>>
    /\ operator_history' = <<>>
    /\ running' = FALSE
    /\ streak' = NoStreak
    /\ ret' = Ret("invoke", w, "CANCELLED", FALSE)
    /\ UNCHANGED <<origin, modal_handlers, draw_regions_prev>>

StopLoop(w) ==
    /\ host_timers' = event_timer_remove                      \* line 849
    /\ timers' = {}
    /\ host_draw_handlers' = draw_handler_remove              \* line 850
    /\ handlers' = {}
    /\ hold_modifier_keys' = <<>>
    /\ event_history' = <<>>
    /\ operator_history' = <<>>
    /\ draw_regions_prev' = {}
    /\ running' = FALSE
    /\ streak' = NoStreak
    /\ ret' = Ret("invoke", w, "CANCELLED", FALSE)
    /\ UNCHANGED <<origin, modal_handlers>>

\* lines 858-868: the loop is not running
StartLoopNotRunning(w, a, r, e) ==
    /\ modal_handlers[w] < MaxModalHandlers
    /\ hold_modifier_keys' = update_hold_modifier_keys(e)
    /\ timers' = event_timer_add
    /\ host_timers' = host_timers \cup (wm_windows \ timers)
    /\ modal_handlers' = [modal_handlers EXCEPT ![w] = @ + 1]
    /\ origin' = [window |-> w, area |-> a, space |-> AreaInfo(a).space,
                  region_type |-> RegionInfo(r).type]
    /\ streak' = NoStreak
    /\ ret' = Ret("invoke", w, "RUNNING_MODAL", FALSE)
    /\ UNCHANGED <<event_history, operator_history, handlers,
                   host_draw_handlers, draw_regions_prev, running>>

StartLoop(w, a, r, e) ==
    /\ modal_handlers[w] < MaxModalHandlers
    /\ hold_modifier_keys' = update_hold_modifier_keys(e)     \* line 859
    /\ timers' = event_timer_add                              \* line 860
    /\ host_timers' = host_timers \cup (wm_windows \ timers)
    /\ modal_handlers' = [modal_handlers EXCEPT ![w] = @ + 1] \* line 861
    /\ origin' = [window |-> w, area |-> a, space |-> AreaInfo(a).space,
                  region_type |-> RegionInfo(r).type]
    /\ running' = TRUE
    /\ streak' = NoStreak
    /\ ret' = Ret("invoke", w, "RUNNING_MODAL", FALSE)
    /\ UNCHANGED <<event_history, operator_history, handlers,
                   host_draw_handlers, draw_regions_prev>>

Invoke(w, a, r, e) ==
    /\ pending = <<>>
    /\ w \in wm_windows
    /\ a \in Range(WindowAreas(w))
    /\ r \in Range(AreaRegions(a))
    /\ e.type \in EventTypeCatalog
    /\ HostUnchanged
    /\ NoPass
    /\ UNCHANGED <<prev_time, area_spaces, pending, set_origin>>
    /\ IF running THEN StopLoop(w) ELSE StartLoop(w, a, r, e)

(***************************************************************************)
(* The host: the clock, windows, regions and executed operators            *)
(***************************************************************************)
HostStep ==
    /\ pending = <<>>
    /\ ret' = NoRet
    /\ UNCHANGED <<hold_modifier_keys, event_history, operator_history, prev_time,
                   timers, handlers, draw_regions_prev, origin, area_spaces, running,
                   host_draw_handlers, pending, prefs, streak, set_origin>>
    /\ NoPass

\* time.time() (ops.py:312, 746, 573)
AdvanceTime(cap) ==
    /\ HostStep
    /\ now < cap
    /\ now' = now + 1
    /\ UNCHANGED <<wm_windows, closed_windows, removed_regions, wm_operators,
                   host_timers, modal_handlers>>

\* context.window_manager.windows gains a window (ops.py:832, 840)
OpenWindow(w) ==
    /\ HostStep
    /\ w \notin wm_windows /\ w \notin closed_windows
    /\ wm_windows' = wm_windows \cup {w}
    /\ UNCHANGED <<now, closed_windows, removed_regions, wm_operators,
                   host_timers, modal_handlers>>

\* A window is closed: its modal handlers go with it.  A timer stays registered
\* with the host until event_timer_remove is called for it.
CloseWindow(w) ==
    /\ HostStep
    /\ w \in wm_windows /\ w # "W1"
    /\ wm_windows' = wm_windows \ {w}
    /\ closed_windows' = closed_windows \cup {w}
    /\ modal_handlers' = [modal_handlers EXCEPT ![w] = 0]
    /\ UNCHANGED <<now, removed_regions, wm_operators, host_timers>>

\* area.regions loses or regains a region (ops.py:518, 801)
RemoveRegion(r) ==
    /\ HostStep
    /\ r \in Panels \ removed_regions
    /\ removed_regions' = removed_regions \cup {r}
    /\ UNCHANGED <<now, wm_windows, closed_windows, wm_operators, host_timers,
                   modal_handlers>>

RestoreRegion(r) ==
    /\ HostStep
    /\ r \in removed_regions
    /\ removed_regions' = removed_regions \ {r}
    /\ UNCHANGED <<now, wm_windows, closed_windows, wm_operators, host_timers,
                   modal_handlers>>

\* context.window_manager.operators grows by n executed operators (ops.py:773),
\* each with a fresh handle, up to cap of them.
ExecOperators(n, cap) ==
    /\ HostStep
    /\ Len(wm_operators) + n <= cap
    /\ wm_operators' = wm_operators \o [i \in 1..n |-> Len(wm_operators) + i]
    /\ UNCHANGED <<now, wm_windows, closed_windows, removed_regions, host_timers,
                   modal_handlers>>

(***************************************************************************)
(* The initial state: the class attributes of lines 205-279, a host with   *)
(* its main window, and the user's preferences.                            *)
(***************************************************************************)
Preferences ==
    [origin : {"WINDOW", "AREA", "REGION"}, offset : {<<5, 1>>},
     show_mouse_events : {TRUE}, show_last_operator : {FALSE},
     display_time : {DisplayTime}]

\* ScreencastKeysStatusSetOrigin.handles = {} (ops.py:878), and no instance of the
\* operator
NoSetOrigin ==
    [handles |-> {}, host_handlers |-> {}, window |-> None, region |-> None,
     area_prev |-> None]

ClassInit ==
    /\ hold_modifier_keys = <<>>
    /\ event_history = <<>>
    /\ operator_history = <<>>
    /\ prev_time = 0
    /\ timers = {}
    /\ handlers = {}
    /\ draw_regions_prev = {}
    /\ origin = [window |-> "", area |-> "", space |-> "", region_type |-> ""]
    /\ area_spaces = {}
    /\ running = FALSE
    /\ set_origin = NoSetOrigin

HostObjects ==
    /\ wm_windows = {"W1"}
    /\ closed_windows = {}
    /\ removed_regions = {}
    /\ wm_operators = <<>>
    /\ host_timers = {}
    /\ host_draw_handlers = {}
    /\ modal_handlers = [w \in Windows |-> 0]
    /\ pending = <<>>
    /\ tagged = {}

HostInit ==
    /\ now = 1
    /\ HostObjects

CallInit ==
    /\ ret = NoRet
    /\ names = <<>>
    /\ kept = <<>>
    /\ rect = NoRect
    /\ regions = <<>>
    /\ streak = NoStreak

Init ==
    /\ ClassInit
    /\ HostInit
    /\ CallInit
    /\ given_modifiers = <<>>
    /\ given_event = NoEvent
    /\ prefs \in Preferences

Events ==
    {Key("A", "PRESS"), Key("A", "RELEASE"), Key("TIMER", "NOTHING")}

InvokeEvents == {Key("LEFTMOUSE", "RELEASE")}

\* The contexts an operator can be invoked in, and a region painted in.
Contexts == {c \in Windows \X Areas \X Regions :
                c[2] \in Range(WindowAreas(c[1])) /\ c[3] \in Range(AreaInfo(c[2]).regions)}

\* One window, whose side panel comes and goes.
Next ==
    \/ \E w \in Windows, e \in Events : Dispatch(w, e)
    \/ DispatchNext
    \/ \E c \in Contexts : DrawCallback(c[1], c[2], c[3])
    \/ \E c \in Contexts, e \in InvokeEvents : Invoke(c[1], c[2], c[3], e)
    \/ AdvanceTime(MaxTime)
    \/ \E r \in Panels : RemoveRegion(r)
    \/ \E r \in Panels : RestoreRegion(r)

Spec == Init /\ [][Next]_vars

\* Two windows, the second of which is opened and closed.
WindowEvents == {Key("A", "RELEASE"), Key("TIMER", "NOTHING")}

NextWindows ==
    \/ \E w \in Windows, e \in WindowEvents : Dispatch(w, e)
    \/ DispatchNext
    \/ \E c \in Contexts : DrawCallback(c[1], c[2], c[3])
    \/ \E c \in Contexts, e \in InvokeEvents : Invoke(c[1], c[2], c[3], e)
    \/ AdvanceTime(MaxWindowTime)
    \/ \E w \in Windows : OpenWindow(w)
    \/ \E w \in Windows : CloseWindow(w)

SpecWindows == Init /\ [][NextWindows]_vars

(***************************************************************************)
(* Calls of the class methods on their own: what a call returns is kept in *)
(* names, kept and regions.  A call changes nothing else.                  *)
(***************************************************************************)
ClassUnchanged ==
    UNCHANGED <<hold_modifier_keys, event_history, operator_history, prev_time,
                timers, handlers, draw_regions_prev, origin, area_spaces, running,
                host_timers, host_draw_handlers, modal_handlers, pending, streak,
                set_origin>>

\* sorted_modifier_keys(modifiers), ops.py:281-305
SortModifierKeys ==
    /\ pending = <<>>
    /\ ret = NoRet
    /\ names' = sorted_modifier_keys(given_modifiers)
    /\ UNCHANGED <<given_modifiers, given_event>>
    /\ ret' = Ret("sorted_modifier_keys", None, None, FALSE)
    /\ kept' = <<>> /\ rect' = NoRect /\ regions' = <<>> /\ tagged' = {}
    /\ ClassUnchanged
    /\ HostUnchanged

ModifierLists ==
    UNION {[1..n -> Range(MODIFIER_EVENT_TYPES)] : n \in 0..MaxModifiers}

InitModifiers ==
    /\ ClassInit
    /\ HostInit
    /\ CallInit
    /\ prefs \in Preferences
    /\ given_modifiers \in ModifierLists
    /\ given_event = NoEvent

NextModifiers == SortModifierKeys

SpecModifiers == InitModifiers /\ [][NextModifiers]_vars

\* removed_old_event_history(), ops.py:307-321, at the time now
RemovedOldEventHistory ==
    /\ pending = <<>>
    /\ kept' = removed_old_event_history(event_history, now, prefs.display_time)
    /\ ret' = Ret("removed_old_event_history", None, None, FALSE)
    /\ given_modifiers' = <<>> /\ names' = <<>>
    /\ given_event' = NoEvent
    /\ rect' = NoRect /\ regions' = <<>> /\ tagged' = {}
    /\ ClassUnchanged
    /\ HostUnchanged

\* The histories modal leaves behind: entries in the order of their times, none of
\* them of the future.
HistoryEntries ==
    [time : 1..MaxTime, type : {"A", "B"}, modifier : {<<>>}, repeat : {1}]

Histories ==
    {h \in UNION {[1..n -> HistoryEntries] : n \in 0..MaxHistory} :
        \A i \in 1..Len(h) : /\ h[i].time <= now
                             /\ i > 1 => h[i - 1].time <= h[i].time}

\* The loop is running in the main window, and has recorded presses.
InitHistory ==
    /\ hold_modifier_keys = <<>>
    /\ operator_history = <<>>
    /\ prev_time = 0
    /\ timers = {"W1"}
    /\ handlers = {}
    /\ draw_regions_prev = {}
    /\ origin = [window |-> "W1", area |-> "A1", space |-> "S1", region_type |-> "WINDOW"]
    /\ area_spaces = {<<"A1", "S1">>}
    /\ running = TRUE
    /\ set_origin = NoSetOrigin
    /\ HostObjects
    /\ CallInit
    /\ given_modifiers = <<>>
    /\ given_event = NoEvent
    /\ prefs \in Preferences
    /\ now \in 1..MaxTime
    /\ event_history \in Histories

NextHistory ==
    \/ RemovedOldEventHistory
    \/ AdvanceTime(MaxTime)

SpecHistory == InitHistory /\ [][NextHistory]_vars

\* Presses of keys, with and without the shift key held, in one window whose side
\* panel can go.
KeyEvents == {Key("A", "PRESS"), Key("B", "PRESS"),
              Ev("A", "PRESS", TRUE, FALSE, FALSE, FALSE)}

NextKeys ==
    \/ \E w \in Windows, e \in KeyEvents : Dispatch(w, e)
    \/ DispatchNext
    \/ \E c \in Contexts, e \in InvokeEvents : Invoke(c[1], c[2], c[3], e)
    \/ AdvanceTime(MaxTime)
    \/ \E r \in Panels : RemoveRegion(r)

SpecKeys == Init /\ [][NextKeys]_vars

\* Redraw passes in two windows, for several offsets of the origin.
RegionPreferences ==
    [origin : {"WINDOW", "AREA", "REGION"}, offset : {<<5, 1>>, <<1, 1>>, <<1, 5>>},
     show_mouse_events : {TRUE}, show_last_operator : {FALSE},
     display_time : {DisplayTime}]

InitRegions ==
    /\ ClassInit
    /\ HostInit
    /\ CallInit
    /\ given_modifiers = <<>>
    /\ given_event = NoEvent
    /\ prefs \in RegionPreferences

RegionEvents == {Key("A", "RELEASE")}

NextRegions ==
    \/ \E w \in Windows, e \in RegionEvents : Dispatch(w, e)
    \/ DispatchNext
    \/ \E c \in Contexts, e \in InvokeEvents : Invoke(c[1], c[2], c[3], e)
    \/ \E w \in Windows : OpenWindow(w)
    \/ \E r \in Panels : RemoveRegion(r)

SpecRegions == InitRegions /\ [][NextRegions]_vars

\* The host executes operators between the ticks of the loop, which is toggled in
\* the main region of the main window.
CommandEvents == {Key("TIMER", "NOTHING")}

CommandContexts == {<<"W1", "A1", "R1">>}

InitCommands == Init /\ prefs.origin = "WINDOW"

NextCommands ==
    \/ \E w \in Windows, e \in CommandEvents : Dispatch(w, e)
    \/ DispatchNext
    \/ \E c \in CommandContexts, e \in InvokeEvents : Invoke(c[1], c[2], c[3], e)
    \/ \E n \in {1, Burst} : ExecOperators(n, MaxCommands)
    \/ AdvanceTime(MaxWindowTime)

SpecCommands == InitCommands /\ [][NextCommands]_vars

\* Events whose type the catalog does not hold, the empty string among them, next to
\* events of the catalog, delivered to the handlers of two windows.
UnknownEvents == {Key("", "NOTHING"), Key("UNKNOWN_DEVICE", "PRESS")}

CatalogEvents == UnknownEvents \cup {Key("A", "RELEASE"), Key("TIMER", "NOTHING")}

NextCatalog ==
    \/ \E w \in Windows, e \in CatalogEvents : Dispatch(w, e)
    \/ DispatchNext
    \/ \E c \in Contexts, e \in InvokeEvents : Invoke(c[1], c[2], c[3], e)
    \/ AdvanceTime(MaxWindowTime)
    \/ \E w \in Windows : OpenWindow(w)

SpecCatalog == Init /\ [][NextCatalog]_vars

\* update_hold_modifier_keys(event), ops.py:696-713, on the event given
UpdateHoldModifierKeys ==
    /\ pending = <<>>
    /\ ret = NoRet
    /\ given_event # NoEvent
    /\ hold_modifier_keys' = update_hold_modifier_keys(given_event)
    /\ ret' = Ret("update_hold_modifier_keys", None, None, FALSE)
    /\ UNCHANGED <<given_modifiers, given_event, names, kept, rect, regions, tagged>>
    /\ UNCHANGED <<event_history, operator_history, prev_time, timers, handlers,
                   draw_regions_prev, origin, area_spaces, running, host_timers,
                   host_draw_handlers, modal_handlers, pending, streak, set_origin>>
    /\ HostUnchanged

\* Events of the catalog with every setting of the four modifier flags.
HoldEvents ==
    {Ev(t, "PRESS", sh, ct, al, os) :
        t \in {"A", "LEFT_SHIFT", "RIGHT_CTRL", "WINDOW_DEACTIVATE", "TIMER"},
        sh \in BOOLEAN, ct \in BOOLEAN, al \in BOOLEAN, os \in BOOLEAN}

\* The lists an earlier call left in hold_modifier_keys.
HeldLists ==
    {SelectSeq(<<"LEFT_SHIFT", "OSKEY", "LEFT_ALT", "LEFT_CTRL">>, LAMBDA k : k \in held) :
        held \in SUBSET {"LEFT_SHIFT", "OSKEY", "LEFT_ALT", "LEFT_CTRL"}}

InitHold ==
    /\ event_history = <<>>
    /\ operator_history = <<>>
    /\ prev_time = 0
    /\ timers = {}
    /\ handlers = {}
    /\ draw_regions_prev = {}
    /\ origin = [window |-> "", area |-> "", space |-> "", region_type |-> ""]
    /\ area_spaces = {}
    /\ running = FALSE
    /\ set_origin = NoSetOrigin
    /\ HostInit
    /\ CallInit
    /\ given_modifiers = <<>>
    /\ prefs \in Preferences
    /\ hold_modifier_keys \in HeldLists
    /\ given_event \in HoldEvents

NextHold == UpdateHoldModifierKeys

SpecHold == InitHold /\ [][NextHold]_vars

\* Ticks for events of every kind: presses of a key and of a mouse button, a release,
\* a press of a modifier key, a mouse move, a timer event and an event of the empty
\* type, with the mouse events shown or not.
TickPreferences ==
    [origin : {"WINDOW"}, offset : {<<5, 1>>}, show_mouse_events : BOOLEAN,
     show_last_operator : {FALSE}, display_time : {DisplayTime}]

TickEvents ==
    {Key("A", "PRESS"), Key("LEFTMOUSE", "PRESS"), Key("A", "RELEASE"),
     Ev("LEFT_SHIFT", "PRESS", TRUE, FALSE, FALSE, FALSE),
     Key("MOUSEMOVE", "NOTHING"), Key("TIMER", "NOTHING"), Key("", "NOTHING")}

InitTicks ==
    /\ ClassInit
    /\ HostInit
    /\ CallInit
    /\ given_modifiers = <<>>
    /\ given_event = NoEvent
    /\ prefs \in TickPreferences

NextTicks ==
    \/ \E w \in Windows, e \in TickEvents : Dispatch(w, e)
    \/ DispatchNext
    \/ \E c \in CommandContexts, e \in InvokeEvents : Invoke(c[1], c[2], c[3], e)
    \/ AdvanceTime(MaxTime)

SpecTicks == InitTicks /\ [][NextTicks]_vars

\* Presses of keys with a display time of one and of two steps of the clock, so that a
\* press can repeat an entry of an earlier time.
MergePreferences ==
    [origin : {"REGION"}, offset : {<<5, 1>>}, show_mouse_events : {TRUE},
     show_last_operator : {FALSE}, display_time : {DisplayTime, DisplayTime + 1}]

InitMerge ==
    /\ ClassInit
    /\ HostInit
    /\ CallInit
    /\ given_modifiers = <<>>
    /\ given_event = NoEvent
    /\ prefs \in MergePreferences

\* The toggle is invoked over the side panel of the main window.
MergeContexts == {<<"W1", "A1", "R2">>}

NextMerge ==
    \/ \E w \in Windows, e \in KeyEvents : Dispatch(w, e)
    \/ DispatchNext
    \/ \E c \in MergeContexts, e \in InvokeEvents : Invoke(c[1], c[2], c[3], e)
    \/ AdvanceTime(MaxTime)
    \/ \E r \in Panels : RemoveRegion(r)

SpecMerge == InitMerge /\ [][NextMerge]_vars

\* The host's timer of a window (event_timer_add, ops.py:829-835) delivers a timer
\* event every TIMER_STEP to the handlers of that window.
TimerTick == \E w \in Windows : Dispatch(w, Key("TIMER", "NOTHING"))

\* The ticks of SpecTicks under a host whose clock advances, whose timers keep firing
\* and which hands an event passed through to the next handler.
SpecLive ==
    /\ InitTicks
    /\ [][NextTicks]_vars
    /\ WF_vars(TimerTick)
    /\ WF_vars(DispatchNext)
    /\ WF_vars(AdvanceTime(MaxTime))

\* The redraw passes of SpecRegions, and the host painting the regions that have a
\* draw handler.
NextPaint ==
    \/ NextRegions
    \/ \E c \in Contexts : DrawCallback(c[1], c[2], c[3])

\* The origin is a region, at each of the offsets.
InitPaint == InitRegions /\ prefs.origin = "REGION"

SpecPaint == InitPaint /\ [][NextPaint]_vars

\* context.window_manager.operators (ops.py:773) between two ticks: the host executes
\* operators, undoes them or clears the list, and a handle can be that of another
\* operator than before.  No handle is twice in the list.
HostLists ==
    {l \in UNION {[1..n -> 1..MaxHandles] : n \in 0..MaxHandles} :
        \A i, k \in 1..Len(l) : i # k => l[i] # l[k]}

ChangeOperators ==
    /\ HostStep
    /\ \E l \in HostLists :
           /\ l # wm_operators
           /\ Len(operator_history) + Len(l) <= MaxScanned
           /\ wm_operators' = l
    /\ UNCHANGED <<now, wm_windows, closed_windows, removed_regions, host_timers,
                   modal_handlers>>

NextScan ==
    \/ \E w \in Windows, e \in CommandEvents : Dispatch(w, e)
    \/ DispatchNext
    \/ \E c \in CommandContexts, e \in InvokeEvents : Invoke(c[1], c[2], c[3], e)
    \/ ChangeOperators
    \/ AdvanceTime(MaxWindowTime)

SpecScan == InitCommands /\ [][NextScan]_vars

(***************************************************************************)
(* ScreencastKeysStatusSetOrigin (ops.py:871-945), the operator that picks *)
(* the origin with the mouse                                               *)
(***************************************************************************)
\* lines 910-918: the area and the region of window w under the point (x, y), the
\* first in the order of the nested loops, or None for both
current_region(w, x, y) ==
    LET pairs == ScreenRegions(ScreenAreas(w))
        under == {i \in 1..Len(pairs) :
                     LET region == RegionInfo(pairs[i][2])
                     IN /\ region.x <= x /\ x < region.x + region.width
                        /\ region.y <= y /\ y < region.y + region.height}
    IN IF under = {} THEN <<None, None>>
       ELSE pairs[CHOOSE i \in under : \A k \in under : i <= k]

\* lines 890-900: a draw handler for every (space type, region type) of the screen
\* that has none, of the regions with a type
SetOriginHandlerKeys(w) ==
    {HandlerKey(pair) : pair \in {q \in Range(ScreenRegions(ScreenAreas(w))) :
                                     RegionInfo(q[2]).type # ""}}

\* The regions the host redraws after area.tag_redraw() (lines 922-925)
TaggedOf(areas) == UNION {Range(AreaRegions(a)) : a \in areas \ {None}}

\* The call of an operator of its own leaves the loop of ScreencastKeysStatus and
\* the locals of its redraw pass alone.
SetOriginCall ==
    /\ pending = <<>>
    /\ HostUnchanged
    /\ UNCHANGED <<hold_modifier_keys, event_history, operator_history, prev_time,
                   timers, handlers, draw_regions_prev, area_spaces, running,
                   host_timers, host_draw_handlers, modal_handlers, pending, streak>>
    /\ rect' = NoRect /\ regions' = <<>> /\ given_modifiers' = <<>>
    /\ given_event' = NoEvent /\ names' = <<>> /\ kept' = <<>>

\* invoke, lines 939-944, in window w
SetOriginInvoke(w) ==
    /\ SetOriginCall
    /\ w \in wm_windows
    /\ set_origin.window = None
    /\ set_origin' =
           [handles |-> set_origin.handles \cup SetOriginHandlerKeys(w),
            host_handlers |-> set_origin.host_handlers
                                  \cup (SetOriginHandlerKeys(w) \ set_origin.handles),
            window |-> w, region |-> None, area_prev |-> None]
    /\ tagged' = {}
    /\ ret' = Ret("set_origin.invoke", w, "RUNNING_MODAL", FALSE)
    /\ UNCHANGED origin

\* lines 905-908: the host's draw handlers of the operator that are left, and
\* self.handles.clear()
SetOriginEnds(region) ==
    [handles |-> {}, host_handlers |-> set_origin.host_handlers \ set_origin.handles,
     window |-> None, region |-> region, area_prev |-> set_origin.area_prev]

ConfirmTypes == {"LEFTMOUSE", "SPACE", "RET", "NUMPAD_ENTER"}

CancelTypes == {"RIGHTMOUSE", "ESC"}

\* modal, lines 920-937, for the event e with the mouse at (x, y).  With no region
\* under the mouse area is None: area.as_pointer() (line 930) raises AttributeError
\* behind the assignment of line 929, and the host ends the operator.
SetOriginModal(e, x, y) ==
    LET w == set_origin.window
        found == current_region(w, x, y)
        area == found[1]
        region == found[2]
    IN
    /\ SetOriginCall
    /\ w # None /\ w \in wm_windows
    /\ tagged' = TaggedOf({set_origin.area_prev, area})
    /\ IF e.type \in ConfirmTypes /\ e.value = "PRESS" THEN
          IF area = None THEN
             /\ origin' = [origin EXCEPT !.window = w]
             /\ set_origin' = [set_origin EXCEPT !.window = None, !.region = region]
             /\ ret' = Ret("set_origin.modal", w, Raised, FALSE)
          ELSE
             /\ origin' = [window |-> w, area |-> area, space |-> AreaInfo(area).space,
                           region_type |-> RegionInfo(region).type]
             /\ set_origin' = SetOriginEnds(region)
             /\ ret' = Ret("set_origin.modal", w, "FINISHED", FALSE)
       ELSE IF e.type \notin ConfirmTypes /\ e.type \in CancelTypes THEN
          /\ set_origin' = SetOriginEnds(region)
          /\ ret' = Ret("set_origin.modal", w, "CANCELLED", FALSE)
          /\ UNCHANGED origin
       ELSE
          /\ set_origin' = [set_origin EXCEPT !.region = region, !.area_prev = area]
          /\ ret' = Ret("set_origin.modal", w, "RUNNING_MODAL", FALSE)
          /\ UNCHANGED origin

\* The events of the operator, and the places of the mouse: over the main region,
\* over the side panel, and right of every region of the main window.
SetOriginEvents ==
    {Key("LEFTMOUSE", "PRESS"), Key("LEFTMOUSE", "RELEASE"), Key("RET", "PRESS"),
     Key("ESC", "PRESS"), Key("RIGHTMOUSE", "RELEASE"), Key("MOUSEMOVE", "NOTHING")}

MousePlaces == {<<1, 1>>, <<5, 1>>, <<7, 1>>}

NextOrigin ==
    \/ \E w \in Windows : SetOriginInvoke(w)
    \/ \E e \in SetOriginEvents, m \in MousePlaces : SetOriginModal(e, m[1], m[2])
    \/ \E c \in CommandContexts, e \in InvokeEvents : Invoke(c[1], c[2], c[3], e)
    \/ \E w \in Windows : OpenWindow(w)
    \/ \E r \in Panels : RemoveRegion(r)

SpecOrigin == InitCommands /\ [][NextOrigin]_vars

(***************************************************************************)
(* Properties                                                              *)
(***************************************************************************)
\* C2: a call of removed_old_event_history at the time t returns, in their order in
\* the history, exactly the entries with t - timestamp <= display_time (those with
\* t - timestamp > display_time are dropped), and pruning the result again at the
\* same t returns it unchanged.
PruneKeepsDisplayed ==
    ret.op = "removed_old_event_history" =>
        /\ kept = SelectSeq(event_history,
                            LAMBDA item : ~(now - item.time > prefs.display_time))
        /\ \A i \in 1..Len(event_history) :
               (now - event_history[i].time <= prefs.display_time)
                   <=> (event_history[i] \in Range(kept))
        /\ removed_old_event_history(kept, now, prefs.display_time) = kept

\* A call that drops an entry and keeps one that is exactly display_time old.
PruneWitness ==
    /\ ret.op = "removed_old_event_history"
    /\ kept # <<>>
    /\ Len(kept) < Len(event_history)
    /\ \E i \in 1..Len(kept) : now - kept[i].time = prefs.display_time

\* The display names of the modifiers, in the order of display.
DisplayOrder == <<<<"Shift">>, <<"Ctrl">>, <<"Alt">>, EventTypeName("OSKEY")>>

DisplayNameOf(t) ==
    CASE t \in {"LEFT_SHIFT", "RIGHT_SHIFT"} -> <<"Shift">>
      [] t \in {"LEFT_CTRL", "RIGHT_CTRL"}   -> <<"Ctrl">>
      [] t \in {"LEFT_ALT", "RIGHT_ALT"}     -> <<"Alt">>
      [] t = "OSKEY"                         -> EventTypeName("OSKEY")

Reversed(seq) == [i \in 1..Len(seq) |-> seq[Len(seq) + 1 - i]]

\* C3: for a list of modifier event types, sorted_modifier_keys returns the display
\* names of the modifiers in the list in the order Shift, Ctrl, Alt, Super (the host's
\* name of the OS key), without Left or Right and each once; the list in another
\* order gives the same names.
ModifierNamesCanonical ==
    ret.op = "sorted_modifier_keys" =>
        /\ names = SelectSeq(DisplayOrder,
                             LAMBDA n : \E i \in 1..Len(given_modifiers) :
                                            DisplayNameOf(given_modifiers[i]) = n)
        /\ names = sorted_modifier_keys(Reversed(given_modifiers))

\* {right-ctrl, left-shift, right-shift} gives ["Shift", "Ctrl"].
ModifierNamesWitness ==
    /\ ret.op = "sorted_modifier_keys"
    /\ given_modifiers = <<"RIGHT_CTRL", "LEFT_SHIFT", "RIGHT_SHIFT">>
    /\ names = <<<<"Shift">>, <<"Ctrl">>>>

\* The last entry of the event history stands for the presses of the streak.
StreakEntry(n) ==
    /\ event_history # <<>>
    /\ event_history[Len(event_history)].type = streak.type
    /\ event_history[Len(event_history)].modifier = streak.modifier
    /\ event_history[Len(event_history)].time = streak.time
    /\ event_history[Len(event_history)].repeat = n

\* While the last press is on display: it has not been pruned.
StreakOnDisplay == streak.n > 0 /\ now - streak.time <= prefs.display_time

OverlappingPairs(r, w) ==
    {<<a, q>> \in Areas \X Regions :
        /\ a \in Range(WindowAreas(w))
        /\ q \in Range(AreaInfo(a).regions) \ removed_regions
        /\ RegionInfo(q).type # ""
        /\ RegionInfo(q).x <= r.max_x - 1
        /\ r.min_x <= RegionInfo(q).x + RegionInfo(q).width - 1
        /\ RegionInfo(q).y <= r.max_y - 1
        /\ r.min_y <= RegionInfo(q).y + RegionInfo(q).height - 1}

ReturnsPairs(S) == Range(regions) = S /\ Len(regions) = Cardinality(S)

\* The redraw pass of the last modal call went through find_redraw_regions.
PassDone == ret.op = "modal" /\ ret.redraw

\* C4 (as amended): find_redraw_regions returns the empty list when the draw
\* rectangle is None or has zero width and zero height; otherwise it returns exactly
\* the (area, region) pairs, over the regions with a non-empty type in the screen's
\* areas, whose rectangle overlaps the draw rectangle.
RedrawRegionsOverlap ==
    PassDone =>
        IF rect.kind = None \/ (rect.max_x = rect.min_x /\ rect.max_y = rect.min_y)
        THEN regions = <<>>
        ELSE ReturnsPairs(OverlappingPairs(rect, ret.window))

\* A pass for a rectangle of zero width that finds a region, in a screen with a
\* region of no type.
RedrawRegionsWitness ==
    /\ PassDone
    /\ rect.kind = "Rect"
    /\ rect.max_x = rect.min_x
    /\ regions # <<>>
    /\ ret.window = "W2"

\* C4 (as claimed): the list is empty when the draw rectangle is None or has zero
\* width or zero height; otherwise it is the overlapping pairs.
RedrawRegionsEmptyOnZeroArea ==
    PassDone =>
        IF rect.kind = None \/ rect.max_x = rect.min_x \/ rect.max_y = rect.min_y
        THEN regions = <<>>
        ELSE ReturnsPairs(OverlappingPairs(rect, ret.window))

\* C5: after a redraw pass every region handle that was tracked before the pass and
\* is not in the current redraw set is no longer tracked and has been invalidated, a
\* region that left the screen included: the tracked set is the current redraw set.
TrackedSetIsRedrawSet ==
    [][(ret'.op = "modal" /\ ret'.redraw) =>
          /\ \A q \in draw_regions_prev :
                 q \notin {pair[2] : pair \in Range(regions')} =>
                     q \notin draw_regions_prev' /\ q \in tagged'
          /\ draw_regions_prev' = {pair[2] : pair \in Range(regions')}]_vars

\* C6: after a tick of the running loop the command history holds at most 32
\* entries, the most recently recorded ones in the order of their arrival; of 40
\* commands recorded in one scan the latest 32 remain.
CommandHistoryLatest ==
    (ret.op = "modal" /\ ret.value # "FINISHED") =>
        /\ Len(operator_history) <= 32
        /\ Len(operator_history) = Min2(32, Len(wm_operators))
        /\ \A i \in 1..Len(operator_history) :
               operator_history[i].addr =
                   wm_operators[Len(wm_operators) - Len(operator_history) + i]
        /\ \A i \in 2..Len(operator_history) :
               operator_history[i - 1].time <= operator_history[i].time

\* A tick that has recorded 40 commands at once and kept the 9th to the 40th.
CommandHistoryWitness ==
    /\ ret.op = "modal"
    /\ ret.value = "PASS_THROUGH"
    /\ Len(wm_operators) = 40
    /\ Len(operator_history) = 32
    /\ operator_history[1].addr = wm_operators[9]
    /\ operator_history[32].addr = wm_operators[40]
    /\ \A i \in 1..32 : operator_history[i].time = now
    /\ now > 1

\* The toggle has just stopped the loop.
Stopped == ret.op = "invoke" /\ ret.value = "CANCELLED"

NothingLeftRegistered ==
    Stopped => host_timers = {} /\ host_draw_handlers = {}

\* An invocation of the toggle in some context.
Invoked == \E c \in Contexts, e \in InvokeEvents : Invoke(c[1], c[2], c[3], e)

\* C9: every invocation of the toggle flips the running flag: stopped, it starts the
\* loop and returns RUNNING_MODAL; running, it stops the loop and returns CANCELLED;
\* the invocation that stops starts no other loop.
ToggleFlipsRunning ==
    [][Invoked =>
          /\ running' = ~running
          /\ ~running => ret'.value = "RUNNING_MODAL"
          /\ running => ret'.value = "CANCELLED" /\ modal_handlers' = modal_handlers]_vars

\* The loop was started, stopped and started again.
ToggleFlipsWitness ==
    /\ ret.op = "invoke"
    /\ ret.value = "RUNNING_MODAL"
    /\ running
    /\ \E w \in Windows : modal_handlers[w] = 2

\* C10: get_origin does not raise: it returns the matching target or the value for
\* no target, also when an area matches neither the anchor's area nor its space.
OriginNeverRaises == ~get_origin.exc

\* C11: while the loop is running, a modal tick for an event of the catalog, with its
\* computation of the draw area and its search for the regions to redraw, and every
\* paint callback of the host complete without raising an exception.
TicksAndPaintsNeverRaise ==
    ret.op \in {"modal", "draw_callback"} => ret.value # Raised

\* C12: modal never consumes an event: a tick of the running loop returns PASS_THROUGH
\* whatever the event's type and value and whatever the state of the loop.
ModalPassesThrough ==
    [][\A w \in Windows, e \in Events :
          running /\ Dispatch(w, e) => ret'.value = "PASS_THROUGH"]_vars

\* C13: an event whose type is no name of the catalog, the empty string or any other
\* unrecognized string, is tolerated: the tick raises nothing, passes the event
\* through and leaves the history of events as it is, the handler staying installed.
UnknownTypesPassThrough ==
    [][\A w \in Windows, e \in UnknownEvents :
          running /\ Dispatch(w, e) =>
              /\ ret'.value = "PASS_THROUGH"
              /\ modal_handlers' = modal_handlers
              /\ event_history' = event_history]_vars

\* ' + '.join(names), a text being a sequence of words
RECURSIVE JoinPlus(_)
JoinPlus(list) ==
    IF list = <<>> THEN <<>>
    ELSE IF Len(list) = 1 THEN list[1]
    ELSE list[1] \o <<"+">> \o JoinPlus(Tail(list))

\* lines 461-466 of calc_draw_area_rect, the same as lines 676-681 of draw_callback
EntryText(entry) ==
    LET text == EventTypeName(entry.type)
        with_mods == IF entry.modifier # <<>>
                     THEN JoinPlus(sorted_modifier_keys(entry.modifier)) \o <<"+">> \o text
                     ELSE text
    IN IF entry.repeat > 1
       THEN with_mods \o <<"x" \o ToString(entry.repeat)>>
       ELSE with_mods

\* The value of a layout that an exception ends before a text is measured.
RaisedTexts == <<<<Raised>>>>

\* lines 453-470: the texts of the entries that a computation of the draw area
\* measures, the newest entry first
LayoutTexts ==
    LET shown == Reversed(removed_old_event_history(event_history, now,
                                                    prefs.display_time))
    IN IF calc_draw_area_rect = RaisedRect THEN RaisedTexts
       ELSE IF calc_draw_area_rect = NoRect THEN <<>>
       ELSE [i \in 1..Len(shown) |-> EntryText(shown[i])]

\* The text the claim gives an entry.
ClaimedText(entry) ==
    LET mods == SelectSeq(DisplayOrder,
                          LAMBDA n : \E i \in 1..Len(entry.modifier) :
                                         DisplayNameOf(entry.modifier[i]) = n)
        name == EventTypeName(entry.type)
    IN (IF mods # <<>> THEN JoinPlus(mods) \o <<"+">> \o name ELSE name)
       \o (IF entry.repeat > 1 THEN <<"x" \o ToString(entry.repeat)>> ELSE <<>>)

\* C14: the text of an entry of the history of events, as the layout measures it and
\* as the paint callback draws it, is the names of its modifiers in display order
\* joined by " + ", then " + " and the name of the event, or the name of the event
\* alone, with " x<repeat>" appended when the entry repeats: while the loop runs and
\* the origin resolves, the layout measures these texts for the entries on display.
EntryTextsMeasured ==
    LET shown == Reversed(removed_old_event_history(event_history, now,
                                                    prefs.display_time))
    IN (running /\ get_origin.window # None) =>
           LayoutTexts = [i \in 1..Len(shown) |-> ClaimedText(shown[i])]

\* C15: every tick of the running loop, the first ticks after the activation among
\* them, makes a redraw pass if its event is not ignorable or if the time since the
\* last redraw pass exceeds the timer interval, and makes none otherwise; a pass that
\* an exception ends counts as made.
RedrawPassDecision ==
    [][\A w \in Windows, e \in Events :
          running /\ Dispatch(w, e) =>
              ((ret'.redraw \/ ret'.value = Raised)
                   <=> (~is_ignore_event(e, prefs) \/ now - prev_time > TIMER_STEP))]_vars

\* The left variant that stands for each modifier flag of an event.
FlagOf(event) ==
    [LEFT_SHIFT |-> event.shift, LEFT_CTRL |-> event.ctrl,
     LEFT_ALT |-> event.alt, OSKEY |-> event.oskey]

\* C16: after update_hold_modifier_keys(event) the list of held modifiers holds
\* exactly those of LEFT_SHIFT, LEFT_CTRL, LEFT_ALT and OSKEY whose flag the event
\* sets, each once, whatever the list held before; it is empty for an event of type
\* WINDOW_DEACTIVATE.
HeldModifiersFromFlags ==
    ret.op = "update_hold_modifier_keys" =>
        /\ Range(hold_modifier_keys) =
               IF given_event.type = "WINDOW_DEACTIVATE" THEN {}
               ELSE {k \in DOMAIN FlagOf(given_event) : FlagOf(given_event)[k]}
        /\ Cardinality(Range(hold_modifier_keys)) = Len(hold_modifier_keys)
        /\ given_event.type = "WINDOW_DEACTIVATE" => hold_modifier_keys = <<>>

\* A press of A with shift and ctrl held leaves the two left variants in the list.
HeldModifiersWitness ==
    /\ ret.op = "update_hold_modifier_keys"
    /\ given_event = Ev("A", "PRESS", TRUE, TRUE, FALSE, FALSE)
    /\ Range(hold_modifier_keys) = {"LEFT_SHIFT", "LEFT_CTRL"}

\* The entries of s are entries of t, in the order they have in t.
SubSeqOf(s, t) ==
    \E f \in [1..Len(s) -> 1..Len(t)] :
        /\ \A i, j \in 1..Len(s) : i < j => f[i] < f[j]
        /\ \A i \in 1..Len(s) : s[i] = t[f[i]]

\* The running loop handles the event e, in the first handler of a window or in one
\* the event was passed through to.
Tick(e) ==
    \/ \E w \in Windows : running /\ Dispatch(w, e)
    \/ running /\ pending # <<>> /\ pending[1].event = e /\ DispatchNext

\* C17: a tick whose event is ignorable, a modifier key, or of a value other than
\* PRESS appends no entry to the history of events and changes neither the timestamp
\* nor the repeat count of an entry: the entries after the tick are entries of
\* before, unchanged and in their order.
OtherTicksRecordNothing ==
    [][\A e \in TickEvents :
          (Tick(e) /\ (\/ is_ignore_event(e, prefs)
                       \/ e.type \in Range(MODIFIER_EVENT_TYPES)
                       \/ e.value # "PRESS")) =>
              SubSeqOf(event_history', event_history)]_vars

\* A tick that recorded nothing left an entry of an earlier time in the history.
OtherTicksWitness ==
    /\ ret.op = "modal"
    /\ running
    /\ event_history # <<>>
    /\ \A i \in 1..Len(event_history) : event_history[i].time < now

\* The modifiers held with the event e, as the loop keeps them.
HeldWith(e) ==
    SelectSeq(<<"LEFT_SHIFT", "OSKEY", "LEFT_ALT", "LEFT_CTRL">>,
              LAMBDA k : FlagOf(e)[k])

\* The entries of s that are on display at the time now.
OnDisplay(s) == SelectSeq(s, LAMBDA item : now - item.time <= prefs.display_time)

AllButLast(s) == SubSeq(s, 1, Len(s) - 1)

\* C18: a recorded press is merged into the last entry of the history (its timestamp
\* becomes the current time, its repeat count grows by one, no entry is added) if and
\* only if that entry has the same event type and the same modifiers and less than
\* display_time has passed since its timestamp; in every other case an entry with
\* repeat count 1 is appended.  The entries before the last are not modified (those
\* that expired are dropped when the tick ends).
PressMergesOrAppends ==
    [][\A e \in KeyEvents :
          Tick(e) =>
              LET h == event_history
                  last == h[Len(h)]
                  merge == /\ h # <<>>
                           /\ last.type = e.type
                           /\ last.modifier = HeldWith(e)
                           /\ now - last.time < prefs.display_time
                  after == event_history'
              IN /\ after # <<>>
                 /\ merge =>
                        /\ after[Len(after)] =
                               [last EXCEPT !.time = now, !.repeat = last.repeat + 1]
                        /\ AllButLast(after) = OnDisplay(AllButLast(h))
                 /\ ~merge =>
                        /\ after[Len(after)] =
                               [time |-> now, type |-> e.type,
                                modifier |-> HeldWith(e), repeat |-> 1]
                        /\ AllButLast(after) = OnDisplay(h)]_vars

\* A press repeated an entry of an earlier time, behind an entry of another key.
PressMergesWitness ==
    /\ ret.op = "modal"
    /\ Len(event_history) = 2
    /\ event_history[2].repeat = 2
    /\ event_history[2].time = now
    /\ streak.start < now
    /\ event_history[1].type # event_history[2].type

\* lines 453 and 669: the entries that a computation of the draw area and a paint
\* callback use
ShownEntries == removed_old_event_history(event_history, now, prefs.display_time)

\* No entry of s has expired at the time now.
NoneExpired(s) == \A i \in 1..Len(s) : now - s[i].time <= prefs.display_time

SomeExpired == ~NoneExpired(event_history)

\* C20: while the loop stays running, with the clock advancing and the timer events
\* delivered, an entry that no further press repeats is removed from the history in
\* the end: a history with an expired entry does not stay so for ever.
ExpiredEntriesRemoved ==
    (running /\ SomeExpired) ~> (~running \/ ~SomeExpired)

\* The separator fraction of a line, HEIGHT_RATIO_FOR_SEPARATOR = 0.6, as a ratio.
SeparatorNum == 3

SeparatorDen == 5

\* The height the claim gives the draw area, in units of 1 / SeparatorDen.
ClaimedHeight(sh) ==
    (IF prefs.show_last_operator THEN SeparatorDen * sh + SeparatorNum * sh ELSE 0)
    + (IF hold_modifier_keys # <<>> THEN SeparatorDen * sh ELSE 0)
    + (IF hold_modifier_keys # <<>> \/ ShownEntries # <<>> THEN SeparatorNum * sh ELSE 0)
    + SeparatorDen * sh * Len(ShownEntries)
    + SeparatorDen * sh

\* C21: when the origin resolves, the height of the rectangle of calc_draw_area_rect,
\* before clipping (the origin WINDOW clips nothing), is the sum of a line and a
\* separator for the last command shown, a line for the held modifiers, a separator
\* if modifiers are held or entries are on display, a line for each entry on display
\* and a trailing line.
DrawAreaHeightIsSum ==
    (running /\ prefs.origin = "WINDOW" /\ get_origin.window # None) =>
        /\ calc_draw_area_rect.kind = "Rect"
        /\ SeparatorDen * (calc_draw_area_rect.max_y - calc_draw_area_rect.min_y)
               = ClaimedHeight(LineHeight)

\* The width the host measures for a text: here the number of its words.
TextWidth(text) == Len(text)

\* The greatest of a set of widths, 0 for none.
MaxWidth(widths) ==
    IF widths = {} THEN 0 ELSE CHOOSE m \in widths : \A k \in widths : k <= m

\* The widths the claim takes the maximum of.
ClaimedWidths ==
    (IF prefs.show_last_operator /\ operator_history # <<>> THEN {1} ELSE {})
    \cup (IF hold_modifier_keys # <<>>
          THEN {TextWidth(JoinPlus(sorted_modifier_keys(hold_modifier_keys)))} ELSE {})
    \cup {TextWidth(ClaimedText(ShownEntries[i])) : i \in 1..Len(ShownEntries)}

\* C22: when the origin resolves, the width of the rectangle of calc_draw_area_rect,
\* before clipping, is the greatest of the measured widths of the label of the last
\* command, of the text of the held modifiers and of the text of each entry on
\* display, and 0 when there is none of them.
DrawAreaWidthIsMax ==
    (running /\ prefs.origin = "WINDOW" /\ get_origin.window # None) =>
        /\ calc_draw_area_rect.kind = "Rect"
        /\ calc_draw_area_rect.max_x - calc_draw_area_rect.min_x = MaxWidth(ClaimedWidths)

\* The host calls the paint callback for the region c[3] of the area c[2] in the
\* window c[1].
Painting(c) == DrawCallback(c[1], c[2], c[3])

\* The draw rectangle d is a point at the origin o: lines 548-551.
Degenerate(o, d) == d.kind = "Rect" /\ d.max_x - o.x = 0 /\ d.max_y - o.y = 0

\* The rectangle rr and the inside of the draw rectangle d share no point.
Apart(rr, d) ==
    \/ d.kind # "Rect"
    \/ rr[3] < d.min_x + 1 \/ d.max_x - 1 < rr[1]
    \/ rr[4] < d.min_y + 1 \/ d.max_y - 1 < rr[2]

CommandsBehindLast ==
    LET found == IF operator_history = <<>> THEN {}
                 ELSE {i \in 1..Len(wm_operators) :
                          wm_operators[i] = operator_history[Len(operator_history)].addr}
        from == IF found = {} THEN 1
                ELSE 1 + CHOOSE i \in found : \A k \in found : k <= i
    IN SubSeq(wm_operators, from, Len(wm_operators))

\* C24: a tick appends to the command history, with the current time and in the
\* host's order, exactly the host commands behind the last occurrence of the handle
\* of the last entry recorded: all of them when the handle is not found or the
\* history is empty, none when the handle is that of the last host command.
CommandScanAppends ==
    [][\A e \in CommandEvents :
          Tick(e) =>
              operator_history' =
                  operator_history
                  \o [i \in 1..Len(CommandsBehindLast) |->
                         [time |-> now, addr |-> CommandsBehindLast[i]]]]_vars

\* A tick appended the one command behind the command recorded last, at a later time.
CommandScanWitness ==
    /\ ret.op = "modal"
    /\ Len(operator_history) = 2
    /\ Len(wm_operators) = 2
    /\ operator_history[1].addr = wm_operators[1]
    /\ operator_history[2].addr = wm_operators[2]
    /\ operator_history[1].time < operator_history[2].time

\* C25: one modal handler processes the events: a press the host has dispatched is
\* recorded once, so a handler that gets the press after another handler has passed
\* it through finds nothing to record, also when the loop was stopped and started
\* again with no event in between.
PressRecordedOnce ==
    [][(DispatchNext /\ running /\ IsRecorded(pending[1].event, prefs)) =>
          event_history' = event_history]_vars

\* Entries k and k + 1 of the history of events have the same event type and the
\* same modifiers.
SamePair(k) ==
    /\ event_history[k].type = event_history[k + 1].type
    /\ event_history[k].modifier = event_history[k + 1].modifier

\* The timestamps do not decrease, every repeat count is at least 1 and no entry is
\* for a modifier key.
OrderedCountedKeys ==
    /\ \A k \in 1..(Len(event_history) - 1) :
           event_history[k].time <= event_history[k + 1].time
    /\ \A k \in 1..Len(event_history) :
           /\ event_history[k].repeat >= 1
           /\ event_history[k].type \notin Range(MODIFIER_EVENT_TYPES)

\* C26: in every reachable state the timestamps of the history of events do not
\* decrease, every repeat count is at least 1, no entry is for a modifier key, and
\* two adjacent entries of the same event type and the same modifiers are exactly
\* display_time apart: the second is for a press that came display_time after the
\* first.
EventHistoryWellFormed ==
    /\ OrderedCountedKeys
    /\ \A k \in 1..(Len(event_history) - 1) :
           SamePair(k) =>
               event_history[k + 1].time - event_history[k].time = prefs.display_time

\* A press of a key came display_time after the press of the same key before it,
\* with the same modifiers held: the history has an entry for each.
EventHistoryWitness ==
    /\ ret.op = "modal"
    /\ Len(event_history) = 2
    /\ SamePair(1)
    /\ event_history[2].time = now
    /\ event_history[2].time - event_history[1].time = prefs.display_time

\* C26 as stated: the history is well formed and no two adjacent entries have the
\* same event type and the same modifiers.
EventHistoryNoAdjacentPair ==
    /\ OrderedCountedKeys
    /\ \A k \in 1..(Len(event_history) - 1) : ~SamePair(k)

\* What is under the mouse at (x, y) in window w, as an origin: no area, no space and
\* no region type where there is no region.
UnderMouse(w, x, y) ==
    LET found == current_region(w, x, y)
    IN [window |-> w, area |-> found[1],
        space |-> IF found[1] = None THEN None ELSE AreaInfo(found[1]).space,
        region_type |-> IF found[2] = None THEN None ELSE RegionInfo(found[2]).type]

\* C27: when the operator that picks the origin ends, on the press of a confirm key
\* or on a cancel key, the host has no draw handler of it left; a cancel leaves the
\* origin as it was, and a confirm makes the origin the window, area, space and
\* region type under the mouse, wherever the mouse is.
SetOriginEndsClean ==
    [][\A e \in SetOriginEvents, m \in MousePlaces :
          (SetOriginModal(e, m[1], m[2]) /\ set_origin'.window = None) =>
              /\ set_origin'.host_handlers = {}
              /\ e.type \in CancelTypes => origin' = origin
              /\ e.type \in ConfirmTypes =>
                     origin' = UnderMouse(set_origin.window, m[1], m[2])]_vars

\* C28: while the loop is running the windows that have a timer in cls.timers are
\* the windows that are open, those opened since the loop was started too, and the
\* host has a timer of the loop for each of them and for no other window.
TimersMatchWindows ==
    running => (timers = wm_windows /\ host_timers = wm_windows)

====
